---- MODULE Spec2Model ----
(***************************************************************************)
(* Model of obsidian_mcp/__init__.py: the vault operations (list, read,    *)
(* write, delete, search, tags, statistics) and the call_tool dispatcher,  *)
(* over a POSIX file system without symbolic links.                        *)
(*                                                                         *)
(* A Python str is a sequence of one-character strings; a pathlib.Path is  *)
(* the sequence of its components after the root "/" (every Path the code  *)
(* builds is absolute because VAULT_PATH is).                              *)
(***************************************************************************)
EXTENDS Integers, Sequences, FiniteSets, TLC

VARIABLES
    VAULT_PATH,  \* the configured vault path, a str
    fs,          \* the file system
    clock,       \* the time of the latest modification
    last,        \* the latest call_tool call: its name, arguments and response
    trashed      \* history: the contents that successful delete_note calls removed

vars == <<VAULT_PATH, fs, clock, last, trashed>>

-----------------------------------------------------------------------------
(* str methods *)

StartsWith(s, p) == Len(p) <= Len(s) /\ SubSeq(s, 1, Len(p)) = p

EndsWith(s, p) == Len(p) <= Len(s) /\ SubSeq(s, Len(s) - Len(p) + 1, Len(s)) = p

\* p in s
Contains(s, p) == \E i \in 1..(Len(s) - Len(p) + 1) : SubSeq(s, i, i + Len(p) - 1) = p

\* s.find(p): 0-based index of the first occurrence, -1 when there is none
Find(s, p) ==
    IF Contains(s, p)
    THEN (CHOOSE i \in 1..(Len(s) - Len(p) + 1) :
             /\ SubSeq(s, i, i + Len(p) - 1) = p
             /\ \A j \in 1..(i - 1) : SubSeq(s, j, j + Len(p) - 1) # p) - 1
    ELSE -1

LowerChar(c) == IF c = "A" THEN "a" ELSE IF c = "B" THEN "b" ELSE IF c = "T" THEN "t" ELSE c

\* s.lower()
Lower(s) == [i \in 1..Len(s) |-> LowerChar(s[i])]

\* s.replace("\n", " ")
ReplaceNewlines(s) == [i \in 1..Len(s) |-> IF s[i] = "\n" THEN " " ELSE s[i]]

\* code points of the characters the model uses, for str comparison
Ord(c) ==
    CASE c = "\n" -> 10 [] c = "\r" -> 13 [] c = " " -> 32 [] c = "#" -> 35
      [] c = "." -> 46 [] c = "/" -> 47 [] c = "A" -> 65 [] c = "B" -> 66
      [] c = "T" -> 84 [] c = "a" -> 97 [] c = "b" -> 98 [] c = "c" -> 99
      [] c = "d" -> 100 [] c = "h" -> 104 [] c = "m" -> 109 [] c = "n" -> 110
      [] c = "o" -> 111 [] c = "r" -> 114 [] c = "s" -> 115 [] c = "t" -> 116
      [] c = "v" -> 118 [] c = "x" -> 120 [] OTHER -> 0

\* \w of the re module, over the characters the model uses
IsWordChar(c) == Ord(c) >= 65

RECURSIVE StrLess(_, _)
\* s < t on str
StrLess(s, t) ==
    IF t = <<>> THEN FALSE
    ELSE IF s = <<>> THEN TRUE
    ELSE IF Ord(Head(s)) # Ord(Head(t)) THEN Ord(Head(s)) < Ord(Head(t))
    ELSE StrLess(Tail(s), Tail(t))

-----------------------------------------------------------------------------
(* pathlib *)

DotDot == <<".", ".">>

DotMd == <<".", "m", "d">>

DotTrash == <<".", "t", "r", "a", "s", "h">>

DotObsidian == <<".", "o", "b", "s", "i", "d", "i", "a", "n">>

RECURSIVE SplitAt(_, _, _, _)
SplitAt(s, i, cur, acc) ==
    IF i > Len(s) THEN Append(acc, cur)
    ELSE IF s[i] = "/" THEN SplitAt(s, i + 1, <<>>, Append(acc, cur))
    ELSE SplitAt(s, i + 1, Append(cur, s[i]), acc)

NotEmptyNorDot(seg) == seg # <<>> /\ seg # <<".">>

\* the components pathlib keeps of a str: empty ones and "." are dropped, ".." is kept
ParseParts(s) == SelectSeq(SplitAt(s, 1, <<>>, <<>>), NotEmptyNorDot)

\* Path(s) for an absolute s
PathOf(s) == ParseParts(s)

\* base / s: an absolute s replaces base
JoinPath(base, s) ==
    IF s # <<>> /\ s[1] = "/" THEN ParseParts(s) ELSE base \o ParseParts(s)

RECURSIVE JoinParts(_)
JoinParts(parts) ==
    IF parts = <<>> THEN <<>> ELSE <<"/">> \o Head(parts) \o JoinParts(Tail(parts))

\* str(path)
PathStr(parts) == IF parts = <<>> THEN <<"/">> ELSE JoinParts(parts)

RECURSIVE JoinRel(_)
\* str of a relative path
JoinRel(parts) ==
    IF parts = <<>> THEN <<".">>
    ELSE IF Len(parts) = 1 THEN Head(parts)
    ELSE Head(parts) \o <<"/">> \o JoinRel(Tail(parts))

Parent(parts) == IF parts = <<>> THEN parts ELSE SubSeq(parts, 1, Len(parts) - 1)

Name(parts) == IF parts = <<>> THEN <<>> ELSE parts[Len(parts)]

\* path.stem: the name without its last suffix
Stem(parts) ==
    LET name == Name(parts)
        dots == {i \in 1..Len(name) : name[i] = "."}
    IN  IF dots = {} THEN name
        ELSE LET j == CHOOSE i \in dots : \A k \in dots : k <= i
             IN  IF 1 < j /\ j < Len(name) THEN SubSeq(name, 1, j - 1) ELSE name

RECURSIVE Normalize(_, _)
Normalize(parts, acc) ==
    IF parts = <<>> THEN acc
    ELSE IF Head(parts) = DotDot THEN Normalize(Tail(parts), Parent(acc))
    ELSE Normalize(Tail(parts), Append(acc, Head(parts)))

\* path.resolve() where no component is a symbolic link: ".." is folded lexically
resolve(parts) == Normalize(parts, <<>>)

\* path.relative_to(base): raises ValueError unless base's parts lead path's parts
IsRelativeTo(parts, base) == StartsWith(parts, base)

relative_to(parts, base) == SubSeq(parts, Len(base) + 1, Len(parts))

-----------------------------------------------------------------------------
(* The file system: fs.dirs is the set of directories and fs.files maps    *)
(* each regular file to its bytes and modification time, both keyed by the *)
(* normalized absolute path.  The root directory <<>> always exists.       *)

IsFile(f, at) == at \in DOMAIN f.files

IsDir(f, at) == at \in f.dirs

RECURSIVE Walk(_, _, _)
\* the kernel's path lookup: every component is applied to an existing directory
Walk(f, parts, cur) ==
    IF parts = <<>> THEN [err |-> "ok", at |-> cur]
    ELSE IF IsFile(f, cur) THEN [err |-> "ENOTDIR", at |-> cur]
    ELSE IF ~IsDir(f, cur) THEN [err |-> "ENOENT", at |-> cur]
    ELSE Walk(f, Tail(parts),
              IF Head(parts) = DotDot THEN Parent(cur) ELSE Append(cur, Head(parts)))

Lookup(f, parts) == Walk(f, parts, <<>>)

\* path.exists()
exists(f, parts) ==
    LET w == Lookup(f, parts) IN w.err = "ok" /\ (IsDir(f, w.at) \/ IsFile(f, w.at))

\* path.is_dir()
is_dir(f, parts) == LET w == Lookup(f, parts) IN w.err = "ok" /\ IsDir(f, w.at)

\* os.mkdir(path)
os_mkdir(f, parts) ==
    LET w == Lookup(f, parts)
    IN  IF w.err # "ok" THEN [err |-> w.err, fs |-> f]
        ELSE IF IsDir(f, w.at) \/ IsFile(f, w.at) THEN [err |-> "EEXIST", fs |-> f]
        ELSE [err |-> "ok", fs |-> [f EXCEPT !.dirs = @ \cup {w.at}]]

RECURSIVE mkdir(_, _, _)
\* path.mkdir(parents=parents, exist_ok=True)
mkdir(f, parts, parents) ==
    LET r == os_mkdir(f, parts)
    IN  IF r.err = "ok" THEN r
        ELSE IF r.err = "ENOENT"
        THEN IF ~parents \/ parts = <<>> THEN r
             ELSE LET up == mkdir(f, Parent(parts), TRUE)
                  IN  IF up.err # "ok" THEN up ELSE mkdir(up.fs, parts, FALSE)
        ELSE IF is_dir(f, parts) THEN [err |-> "ok", fs |-> f]
        ELSE r

\* os.linesep
linesep == <<"\n">>

RECURSIVE TranslateOut(_)
\* text-mode write with newline=None: every "\n" becomes os.linesep
TranslateOut(s) ==
    IF s = <<>> THEN <<>>
    ELSE (IF Head(s) = "\n" THEN linesep ELSE <<Head(s)>>) \o TranslateOut(Tail(s))

RECURSIVE TranslateIn(_)
\* text-mode read with newline=None: "\r\n" and "\r" become "\n"
TranslateIn(b) ==
    IF b = <<>> THEN <<>>
    ELSE IF Head(b) = "\r"
    THEN IF Len(b) >= 2 /\ b[2] = "\n"
         THEN <<"\n">> \o TranslateIn(SubSeq(b, 3, Len(b)))
         ELSE <<"\n">> \o TranslateIn(Tail(b))
    ELSE <<Head(b)>> \o TranslateIn(Tail(b))

SetFile(f, at, rec) ==
    [f EXCEPT !.files = [q \in (DOMAIN f.files) \cup {at} |-> IF q = at THEN rec ELSE f.files[q]]]

\* path.write_text(data, encoding="utf-8") at time now
write_text(f, parts, data, now) ==
    LET w == Lookup(f, parts)
    IN  IF w.err # "ok" THEN [err |-> w.err, fs |-> f]
        ELSE IF IsDir(f, w.at) THEN [err |-> "EISDIR", fs |-> f]
        ELSE [err |-> "ok",
              fs |-> SetFile(f, w.at, [bytes |-> TranslateOut(data), mtime |-> now])]

\* path.read_text(encoding="utf-8")
read_text(f, parts) ==
    LET w == Lookup(f, parts)
    IN  IF w.err # "ok" THEN [err |-> w.err, text |-> <<>>]
        ELSE IF IsDir(f, w.at) THEN [err |-> "EISDIR", text |-> <<>>]
        ELSE IF ~IsFile(f, w.at) THEN [err |-> "ENOENT", text |-> <<>>]
        ELSE [err |-> "ok", text |-> TranslateIn(f.files[w.at].bytes)]

\* path.stat(): directory times and sizes are not tracked
stat(f, parts) ==
    LET w == Lookup(f, parts)
    IN  IF w.err # "ok" THEN [err |-> w.err, st_mtime |-> 0, st_size |-> 0]
        ELSE IF IsFile(f, w.at)
        THEN [err |-> "ok", st_mtime |-> f.files[w.at].mtime,
              st_size |-> Len(f.files[w.at].bytes)]
        ELSE IF IsDir(f, w.at) THEN [err |-> "ok", st_mtime |-> 0, st_size |-> 0]
        ELSE [err |-> "ENOENT", st_mtime |-> 0, st_size |-> 0]

Rebase(q, from, to) == to \o SubSeq(q, Len(from) + 1, Len(q))

\* the tree with everything at or under directory from moved to to
MoveTree(f, from, to) ==
    LET movedDirs == {d \in f.dirs : StartsWith(d, from)}
        movedFiles == {q \in DOMAIN f.files : StartsWith(q, from)}
        keptFiles == (DOMAIN f.files) \ movedFiles
        newFiles == {Rebase(q, from, to) : q \in movedFiles}
    IN  [dirs |-> (f.dirs \ movedDirs) \cup {Rebase(d, from, to) : d \in movedDirs},
         files |-> [q \in keptFiles \cup newFiles |->
                      IF q \in newFiles
                      THEN f.files[CHOOSE o \in movedFiles : Rebase(o, from, to) = q]
                      ELSE f.files[q]]]

\* path.rename(target): os.rename, which replaces an existing file silently
rename(f, src, dst) ==
    LET ws == Lookup(f, src)
        wd == Lookup(f, dst)
    IN  IF ws.err # "ok" THEN [err |-> ws.err, fs |-> f]
        ELSE IF ~(IsFile(f, ws.at) \/ IsDir(f, ws.at)) THEN [err |-> "ENOENT", fs |-> f]
        ELSE IF wd.err # "ok" THEN [err |-> wd.err, fs |-> f]
        ELSE IF Name(src) = DotDot \/ Name(dst) = DotDot \/ src = <<>> \/ dst = <<>>
        THEN [err |-> "EBUSY", fs |-> f]
        ELSE IF ws.at = wd.at THEN [err |-> "ok", fs |-> f]
        ELSE IF IsFile(f, ws.at)
        THEN IF IsDir(f, wd.at) THEN [err |-> "EISDIR", fs |-> f]
             ELSE [err |-> "ok",
                   fs |-> [dirs |-> f.dirs,
                           files |-> [q \in ((DOMAIN f.files) \ {ws.at}) \cup {wd.at} |->
                                        IF q = wd.at THEN f.files[ws.at] ELSE f.files[q]]]]
        ELSE IF IsFile(f, wd.at) THEN [err |-> "ENOTDIR", fs |-> f]
        ELSE IF StartsWith(wd.at, ws.at) THEN [err |-> "EINVAL", fs |-> f]
        ELSE IF IsDir(f, wd.at)
                /\ \E q \in f.dirs \cup DOMAIN f.files : q # wd.at /\ StartsWith(q, wd.at)
        THEN [err |-> "ENOTEMPTY", fs |-> f]
        ELSE [err |-> "ok", fs |-> MoveTree(f, ws.at, wd.at)]

-----------------------------------------------------------------------------
(* Directory scans *)

Children(f, d) ==
    {q \in f.dirs \cup DOMAIN f.files : Len(q) = Len(d) + 1 /\ StartsWith(q, d)}

\* the orders in which a directory listing can return the members of S
Perms(S) ==
    {o \in [1..Cardinality(S) -> S] : \A i, j \in 1..Cardinality(S) : o[i] = o[j] => i = j}

RECURSIVE RGlobOrders(_, _)
RECURSIVE Chain(_, _)
\* what rglob("*.md") yields below directory d: the matching entries of d in
\* listing order, then the same for every subdirectory in listing order
RGlobOrders(f, d) ==
    LET kids == Children(f, d)
        hits == {c \in kids : EndsWith(Name(c), DotMd)}
        subs == {c \in kids : IsDir(f, c)}
    IN  {h \o t : h \in Perms(hits), t \in UNION {Chain(f, ps) : ps \in Perms(subs)}}

Chain(f, ps) ==
    IF ps = <<>> THEN {<<>>}
    ELSE {a \o b : a \in RGlobOrders(f, Head(ps)), b \in Chain(f, Tail(ps))}

\* start.rglob("*.md"): the sequences of Paths the iterator can yield; every
\* Path is start joined with the entry's path below it, start left as written
rglob_md(f, start) ==
    LET w == Lookup(f, start)
    IN  IF w.err = "ok" /\ IsDir(f, w.at)
        THEN {[i \in 1..Len(o) |-> start \o relative_to(o[i], w.at)] :
                 o \in RGlobOrders(f, w.at)}
        ELSE {<<>>}

\* start.rglob("*"): the set of Paths yielded (the callers do not depend on the order)
rglob_all(f, start) ==
    LET w == Lookup(f, start)
    IN  IF w.err = "ok" /\ IsDir(f, w.at)
        THEN {start \o relative_to(q, w.at) :
                 q \in {e \in f.dirs \cup DOMAIN f.files : e # w.at /\ StartsWith(e, w.at)}}
        ELSE {}

-----------------------------------------------------------------------------
(* obsidian_mcp *)

get_vault_path(vault_path) == PathOf(vault_path)

is_hidden_or_system_NoFilter(parts) == FALSE

is_hidden_or_system(parts) ==
    LET path_str == PathStr(parts)
    IN  \/ Contains(path_str, DotObsidian)
        \/ Contains(path_str, DotTrash)
        \/ \E i \in 1..Len(parts) : StartsWith(parts[i], <<".">>)

\* the fields of every result; an operation fills the ones its dict has.
\* counted is bookkeeping: the files a tags or statistics result was computed from
Reply(kind) ==
    [kind |-> kind, errno |-> "", tool |-> "", path |-> <<>>, name |-> <<>>,
     content |-> <<>>, modified |-> 0, size |-> 0, items |-> <<>>, tags |-> <<>>,
     folders |-> <<>>, note_count |-> 0, folder_count |-> 0, counted |-> {}]

Entry(name, path, modified, size, snippet) ==
    [name |-> name, path |-> path, modified |-> modified, size |-> size,
     snippet |-> snippet]

Returns(value) == [raised |-> "", value |-> value]

Raises(exc) == [raised |-> exc, value |-> Reply("none")]

PyInt(n) == [type |-> "int", n |-> n]

PyNone == [type |-> "NoneType", n |-> 0]

\* len(xs) >= limit, for an int limit
AtLimit(xs, limit) == Len(xs) >= limit.n

RECURSIVE InsertDesc(_, _)
InsertDesc(sorted, e) ==
    IF sorted = <<>> THEN <<e>>
    ELSE IF Head(sorted).modified >= e.modified
    THEN <<Head(sorted)>> \o InsertDesc(Tail(sorted), e)
    ELSE <<e>> \o sorted

RECURSIVE SortedByModifiedDesc(_, _)
\* sorted(files, key=lambda x: x["modified"], reverse=True): stable
SortedByModifiedDesc(files, acc) ==
    IF files = <<>> THEN acc
    ELSE SortedByModifiedDesc(Tail(files), InsertDesc(acc, Head(files)))

\* datetime.fromtimestamp(st_mtime).isoformat(): kept as the timestamp, whose
\* order the fixed-width ISO text preserves
isoformat(t) == t

RECURSIVE list_loop(_, _, _, _, _)
list_loop(f, vault, limit, order, files) ==
    IF order = <<>> THEN Returns(files)
    ELSE LET md_file == Head(order)
             st == stat(f, md_file)
         IN  IF is_hidden_or_system(md_file) THEN list_loop(f, vault, limit, Tail(order), files)
             ELSE IF st.err # "ok" \/ ~IsRelativeTo(md_file, vault)
             THEN list_loop(f, vault, limit, Tail(order), files)
             ELSE LET more == Append(files,
                                 Entry(Stem(md_file), JoinRel(relative_to(md_file, vault)),
                                       isoformat(st.st_mtime), st.st_size, <<>>))
                  IN  IF limit.type # "int" THEN Raises("TypeError")
                      ELSE IF AtLimit(more, limit) THEN Returns(more)
                      ELSE list_loop(f, vault, limit, Tail(order), more)

\* the directory list_markdown_files scans: a None or empty folder means the vault
search_path(vault, folder) == IF folder # <<>> THEN JoinPath(vault, folder) ELSE vault

list_markdown_files(f, vault, folder, limit, order) ==
    IF ~exists(f, search_path(vault, folder))
    THEN Returns([Reply("list") EXCEPT !.items = <<>>])
    ELSE LET r == list_loop(f, vault, limit, order, <<>>)
         IN  IF r.raised # "" THEN r
             ELSE Returns([Reply("list") EXCEPT
                              !.items = SortedByModifiedDesc(r.value, <<>>)])

RECURSIVE title_loop(_, _, _, _, _, _)
title_loop(f, vault, query_lower, limit, order, results) ==
    IF order = <<>> THEN Returns(results)
    ELSE LET md_file == Head(order)
             st == stat(f, md_file)
         IN  IF is_hidden_or_system(md_file)
             THEN title_loop(f, vault, query_lower, limit, Tail(order), results)
             ELSE IF ~Contains(Lower(Stem(md_file)), query_lower)
             THEN title_loop(f, vault, query_lower, limit, Tail(order), results)
             ELSE IF st.err # "ok" \/ ~IsRelativeTo(md_file, vault)
             THEN title_loop(f, vault, query_lower, limit, Tail(order), results)
             ELSE LET more == Append(results,
                                 Entry(Stem(md_file), JoinRel(relative_to(md_file, vault)),
                                       isoformat(st.st_mtime), 0, <<>>))
                  IN  IF limit.type # "int" THEN Raises("TypeError")
                      ELSE IF AtLimit(more, limit) THEN Returns(more)
                      ELSE title_loop(f, vault, query_lower, limit, Tail(order), more)

search_by_title(f, vault, query, limit, order) ==
    LET r == title_loop(f, vault, Lower(query), limit, order, <<>>)
    IN  IF r.raised # "" THEN r ELSE Returns([Reply("list") EXCEPT !.items = r.value])

Max(a, b) == IF a >= b THEN a ELSE b

Min(a, b) == IF a <= b THEN a ELSE b

SnippetRadius == 50

\* "..." + content[start:end].replace("\n", " ") + "..."
Snippet(content, query, query_lower) ==
    LET idx == Find(Lower(content), query_lower)
        start == Max(0, idx - SnippetRadius)
        end == Min(Len(content), idx + Len(query) + SnippetRadius)
    IN  <<".", ".", ".">> \o ReplaceNewlines(SubSeq(content, start + 1, end))
           \o <<".", ".", ".">>

RECURSIVE text_loop(_, _, _, _, _, _)
\* a TypeError from comparing with a non-int limit is raised inside the try block
\* and swallowed with the entry already appended
text_loop(f, vault, query, limit, order, results) ==
    IF order = <<>> THEN results
    ELSE LET md_file == Head(order)
             rd == read_text(f, md_file)
             st == stat(f, md_file)
         IN  IF is_hidden_or_system(md_file)
             THEN text_loop(f, vault, query, limit, Tail(order), results)
             ELSE IF rd.err # "ok" \/ ~Contains(Lower(rd.text), Lower(query))
             THEN text_loop(f, vault, query, limit, Tail(order), results)
             ELSE IF st.err # "ok" \/ ~IsRelativeTo(md_file, vault)
             THEN text_loop(f, vault, query, limit, Tail(order), results)
             ELSE LET more == Append(results,
                                 Entry(Stem(md_file), JoinRel(relative_to(md_file, vault)),
                                       isoformat(st.st_mtime), 0,
                                       Snippet(rd.text, query, Lower(query))))
                  IN  IF limit.type = "int" /\ AtLimit(more, limit) THEN more
                      ELSE text_loop(f, vault, query, limit, Tail(order), more)

full_text_search(f, vault, query, limit, order) ==
    Returns([Reply("list") EXCEPT !.items = text_loop(f, vault, query, limit, order, <<>>)])

\* list_folders(): the yielded order is sorted away
RECURSIVE SortedStrs(_)
SortedStrs(S) ==
    IF S = {} THEN <<>>
    ELSE LET least == CHOOSE x \in S : \A y \in S \ {x} : StrLess(x, y)
         IN  <<least>> \o SortedStrs(S \ {least})

list_folders(f, vault) ==
    Returns([Reply("folders") EXCEPT
                !.folders = SortedStrs({JoinRel(relative_to(item, vault)) :
                                item \in {q \in rglob_all(f, vault) :
                                             is_dir(f, q) /\ ~is_hidden_or_system(q)}})])

RECURSIVE WordRun(_, _)
\* the end of the longest run of word characters of s that starts at i
WordRun(s, i) == IF i < Len(s) /\ IsWordChar(s[i + 1]) THEN WordRun(s, i + 1) ELSE i

RECURSIVE findall_tags(_, _, _)
\* re.findall(r"#([\w\u0080-\uffff]+)", content), scanning from position i
findall_tags(content, i, acc) ==
    IF i > Len(content) THEN acc
    ELSE IF content[i] = "#" /\ i < Len(content) /\ IsWordChar(content[i + 1])
    THEN findall_tags(content, WordRun(content, i + 1) + 1,
                      Append(acc, SubSeq(content, i + 1, WordRun(content, i + 1))))
    ELSE findall_tags(content, i + 1, acc)

RECURSIVE AddTags(_, _, _)
AddTags(tags, found, stem) ==
    IF found = <<>> THEN tags
    ELSE LET tag == Head(found)
         IN  AddTags([t \in (DOMAIN tags) \cup {tag} |->
                         IF t = tag
                         THEN (IF tag \in DOMAIN tags THEN Append(tags[tag], stem) ELSE <<stem>>)
                         ELSE tags[t]],
                     Tail(found), stem)

RECURSIVE tags_loop(_, _, _)
tags_loop(f, order, acc) ==
    IF order = <<>> THEN acc
    ELSE LET md_file == Head(order)
             rd == read_text(f, md_file)
             found == findall_tags(rd.text, 1, <<>>)
         IN  IF is_hidden_or_system(md_file) \/ rd.err # "ok"
             THEN tags_loop(f, Tail(order), acc)
             ELSE tags_loop(f, Tail(order),
                            [acc EXCEPT !.tags = AddTags(@, found, Stem(md_file)),
                                        !.counted = IF found = <<>> THEN @
                                                    ELSE @ \cup {md_file}])

get_tags(f, vault, order) == Returns(tags_loop(f, order, Reply("tags")))

get_vault_info(f, vault) ==
    IF ~exists(f, vault)
    THEN Returns([Reply("VaultNotFound") EXCEPT !.path = PathStr(vault)])
    ELSE LET notes == {q \in rglob_all(f, vault) :
                          EndsWith(Name(q), DotMd) /\ ~is_hidden_or_system(q)}
             folders == {d \in rglob_all(f, vault) :
                            is_dir(f, d) /\ ~is_hidden_or_system(d)}
         IN  Returns([Reply("info") EXCEPT !.path = PathStr(vault),
                                           !.note_count = Cardinality(notes),
                                           !.folder_count = Cardinality(folders),
                                           !.counted = notes])

\* the security check: a prefix test on the two resolved path strings
InsideVault(file_path, vault) ==
    StartsWith(PathStr(resolve(file_path)), PathStr(resolve(vault)))

Failure(kind, path, errno) == [Reply(kind) EXCEPT !.path = path, !.errno = errno]

read_note(f, vault, path) ==
    LET file_path == JoinPath(vault, path)
        rd == read_text(f, file_path)
        st == stat(f, file_path)
    IN  IF ~exists(f, file_path) THEN Returns(Failure("NotFound", path, ""))
        ELSE IF ~InsideVault(file_path, vault) THEN Returns(Failure("AccessDenied", path, ""))
        ELSE IF rd.err # "ok" THEN Returns(Failure("IOFailure", path, rd.err))
        ELSE Returns([Reply("note") EXCEPT !.name = Stem(file_path), !.path = path,
                                           !.content = rd.text,
                                           !.modified = isoformat(st.st_mtime),
                                           !.size = st.st_size])

Changes(r, f) == [raised |-> r.raised, value |-> r.value, fs |-> f]

write_note(f, vault, path0, content, now) ==
    LET path == IF ~EndsWith(path0, DotMd) THEN path0 \o DotMd ELSE path0
        file_path == JoinPath(vault, path)
        mk == mkdir(f, Parent(file_path), TRUE)
        wt == write_text(mk.fs, file_path, content, now)
    IN  IF ~InsideVault(file_path, vault)
        THEN Changes(Returns(Failure("AccessDenied", path, "")), f)
        ELSE IF mk.err # "ok" THEN Changes(Returns(Failure("IOFailure", path, mk.err)), mk.fs)
        ELSE IF wt.err # "ok" THEN Changes(Returns(Failure("IOFailure", path, wt.err)), wt.fs)
        ELSE Changes(Returns([Reply("saved") EXCEPT !.path = path]), wt.fs)

delete_note(f, vault, path) ==
    LET file_path == JoinPath(vault, path)
        trash_path == JoinPath(JoinPath(vault, DotTrash), path)
        mk == mkdir(f, Parent(trash_path), TRUE)
        mv == rename(mk.fs, file_path, trash_path)
    IN  IF ~exists(f, file_path) THEN Changes(Returns(Failure("NotFound", path, "")), f)
        ELSE IF ~InsideVault(file_path, vault)
        THEN Changes(Returns(Failure("AccessDenied", path, "")), f)
        ELSE IF mk.err # "ok" THEN Changes(Returns(Failure("IOFailure", path, mk.err)), mk.fs)
        ELSE IF mv.err # "ok" THEN Changes(Returns(Failure("IOFailure", path, mv.err)), mv.fs)
        ELSE Changes(Returns([Reply("moved") EXCEPT !.path = path]), mv.fs)

DefaultListLimit == 50

DefaultSearchLimit == 20

\* arguments.get("limit", default)
GetLimit(arguments, default) ==
    IF "limit" \in arguments.has THEN arguments.limit ELSE PyInt(default)

\* arguments.get("folder"): None and "" both select the vault
GetFolder(arguments) == IF "folder" \in arguments.has THEN arguments.folder ELSE <<>>

\* the body of call_tool's try block; arguments[key] raises KeyError for a missing key
dispatch(f, vault, now, name, arguments, order) ==
    LET Need(keys, r) == IF keys \subseteq arguments.has THEN r
                         ELSE Changes(Raises("KeyError"), f)
    IN  CASE name = "list_notes" ->
               Changes(list_markdown_files(f, vault, GetFolder(arguments),
                                           GetLimit(arguments, DefaultListLimit), order), f)
          [] name = "get_note" ->
               Need({"path"}, Changes(read_note(f, vault, arguments.path), f))
          [] name \in {"create_note", "update_note"} ->
               Need({"path", "content"},
                    write_note(f, vault, arguments.path, arguments.content, now))
          [] name = "search_notes" ->
               Need({"query"},
                    Changes(search_by_title(f, vault, arguments.query,
                                            GetLimit(arguments, DefaultSearchLimit), order), f))
          [] name = "full_text_search" ->
               Need({"query"},
                    Changes(full_text_search(f, vault, arguments.query,
                                             GetLimit(arguments, DefaultSearchLimit), order), f))
          [] name = "list_folders" -> Changes(list_folders(f, vault), f)
          [] name = "get_tags" -> Changes(get_tags(f, vault, order), f)
          [] name = "delete_note" ->
               Need({"path"}, delete_note(f, vault, arguments.path))
          [] name = "get_vault_info" -> Changes(get_vault_info(f, vault), f)
          [] OTHER -> Changes(Returns([Reply("UnknownTool") EXCEPT !.tool = name]), f)

\* what reaches the transport: a TextContent list, or the exception when fault is set
Response(fault, result, f) ==
    [fault |-> fault, type |-> "text", text |-> result, fs |-> f]

call_tool_NoCatch(f, vault_path, now, name, arguments, order) ==
    LET Try(r) ==
            IF r.raised # ""
            THEN Response(TRUE, [Reply("Exception") EXCEPT !.errno = r.raised], r.fs)
            ELSE Response(FALSE, r.value, r.fs)
    IN  Try(dispatch(f, get_vault_path(vault_path), now, name, arguments, order))

\* try: result = <the tool's>; return [TextContent(...)]
\* except Exception as e: return [TextContent(... {"error": str(e)})]
call_tool(f, vault_path, now, name, arguments, order) ==
    LET Try(r) ==
            IF r.raised # ""
            THEN Response(FALSE, [Reply("Exception") EXCEPT !.errno = r.raised], r.fs)
            ELSE Response(FALSE, r.value, r.fs)
    IN  Try(dispatch(f, get_vault_path(vault_path), now, name, arguments, order))

-----------------------------------------------------------------------------
(* Inputs *)

MaxClock == 1

MaxLimit == 1

StrAMd == <<"a", ".", "m", "d">>

StrA == <<"a">>

StrSibling == <<".", ".", "/", "v", "x", "/", "a", ".", "m", "d">>

StrOutside == <<".", ".", "/", "o", "/", "a", ".", "m", "d">>

StrTrashAMd == DotTrash \o <<"/">> \o StrAMd

Paths == {StrAMd, StrA, StrSibling, StrOutside, StrTrashAMd}

TextTagged == <<"#", "t", "\r", "B">>

TextPlain == <<"a">>

Contents == {TextTagged}

Queries == {<<"A">>}

Folders == {<<"n">>, DotTrash}

Limits == {PyInt(n) : n \in 0..MaxLimit}

ToolNames ==
    {"list_notes", "get_note", "create_note", "update_note", "search_notes",
     "full_text_search", "list_folders", "get_tags", "delete_note", "get_vault_info"}

Arguments(has, path, content, query, folder, limit) ==
    [has |-> has, path |-> path, content |-> content, query |-> query,
     folder |-> folder, limit |-> limit]

NoArguments == Arguments({}, <<>>, <<>>, <<>>, <<>>, PyInt(0))

SegV == <<"v">>

SegVx == <<"v", "x">>

SegN == <<"n">>

SegO == <<"o">>

SegH == <<".", "h">>

SegCTrashMd == <<"c", ".", "t", "r", "a", "s", "h", ".", "m", "d">>

File(bytes, mtime) == [bytes |-> bytes, mtime |-> mtime]

SegBMd == <<"b", ".", "m", "d">>

\* a vault at /v holding a.md, and n/b.md and n/n/c.trash.md modified after it,
\* beside a directory /o holding a.md
WorldMain ==
    [vault_path |-> <<"/", "v">>,
     fs |-> [dirs |-> {<<>>, <<SegV>>, <<SegV, SegN>>, <<SegV, SegN, SegN>>, <<SegO>>},
             files |-> [q \in {<<SegV, StrAMd>>, <<SegV, SegN, SegBMd>>,
                               <<SegV, SegN, SegN, SegCTrashMd>>, <<SegO, StrAMd>>} |->
                          File(TextPlain, IF q[Len(q)] = StrAMd THEN 0 ELSE 1)]]]

\* a vault that lies below a dot-prefixed directory, holding a.md
WorldHiddenRoot ==
    [vault_path |-> <<"/", ".", "h", "/", "v">>,
     fs |-> [dirs |-> {<<>>, <<SegH>>, <<SegH, SegV>>},
             files |-> [q \in {<<SegH, SegV, StrAMd>>} |-> File(TextPlain, 0)]]]

\* VAULT_PATH names a directory that does not exist
WorldNoRoot ==
    [vault_path |-> <<"/", "v">>,
     fs |-> [dirs |-> {<<>>}, files |-> [q \in {} |-> File(<<>>, 0)]]]

Worlds == {WorldMain, WorldHiddenRoot, WorldNoRoot}

-----------------------------------------------------------------------------
(* The server: one action per tool call *)

Init ==
    \E w \in Worlds :
        /\ VAULT_PATH = w.vault_path
        /\ fs = w.fs
        /\ clock = 1
        /\ trashed = {}
        /\ last = [name |-> "", arguments |-> NoArguments, fault |-> FALSE,
                   type |-> "text", text |-> Reply("none")]

\* the content of the vault note that a path argument names in f, if any
NoteBytes(f, vault, path) ==
    LET w == Lookup(f, JoinPath(vault, path))
    IN  IF w.err = "ok" /\ IsFile(f, w.at) /\ StartsWith(w.at, vault)
        THEN {f.files[w.at].bytes}
        ELSE {}

Call(name, arguments, order, now) ==
    \E r \in {call_tool(fs, VAULT_PATH, now, name, arguments, order)} :
        /\ fs' = r.fs
        /\ trashed' = IF name = "delete_note" /\ r.text.kind = "moved"
                      THEN trashed \cup NoteBytes(fs, get_vault_path(VAULT_PATH),
                                                  arguments.path)
                      ELSE trashed
        /\ last' = [name |-> name, arguments |-> arguments, fault |-> r.fault,
                    type |-> r.type, text |-> r.text]
        /\ UNCHANGED VAULT_PATH

VaultOrders == rglob_md(fs, get_vault_path(VAULT_PATH))

\* the argument objects of list_notes: no argument, a folder, or a limit
ListArguments ==
    {Arguments(has, <<>>, <<>>, <<>>, IF "folder" \in has THEN folder ELSE <<>>,
               IF "limit" \in has THEN limit ELSE PyInt(0)) :
        has \in {{}, {"folder"}, {"limit"}}, folder \in Folders, limit \in Limits}

\* the argument objects of search_notes and full_text_search: limit is optional
SearchArguments ==
    {Arguments(has, <<>>, <<>>, query, <<>>, IF "limit" \in has THEN limit ELSE PyInt(0)) :
        has \in {{"query"}, {"query", "limit"}}, query \in Queries, limit \in Limits}

ListNotes ==
    \E arguments \in ListArguments :
        \E order \in rglob_md(fs, search_path(get_vault_path(VAULT_PATH),
                                              GetFolder(arguments))) :
            /\ Call("list_notes", arguments, order, clock)
            /\ UNCHANGED clock

GetNote ==
    \E path \in Paths :
        /\ Call("get_note", Arguments({"path"}, path, <<>>, <<>>, <<>>, PyInt(0)), <<>>, clock)
        /\ UNCHANGED clock

WriteNote ==
    \E name \in {"create_note", "update_note"}, path \in Paths, content \in Contents :
        /\ clock <= MaxClock
        /\ clock' = clock + 1
        /\ Call(name, Arguments({"path", "content"}, path, content, <<>>, <<>>, PyInt(0)),
                <<>>, clock + 1)

SearchNotes ==
    \E name \in {"search_notes", "full_text_search"}, arguments \in SearchArguments,
       order \in VaultOrders :
        /\ Call(name, arguments, order, clock)
        /\ UNCHANGED clock

ListFolders ==
    /\ Call("list_folders", NoArguments, <<>>, clock)
    /\ UNCHANGED clock

GetTags ==
    \E order \in VaultOrders :
        /\ Call("get_tags", NoArguments, order, clock)
        /\ UNCHANGED clock

DeleteNote ==
    \E path \in Paths :
        /\ Call("delete_note", Arguments({"path"}, path, <<>>, <<>>, <<>>, PyInt(0)), <<>>, clock)
        /\ UNCHANGED clock

GetVaultInfo ==
    /\ Call("get_vault_info", NoArguments, <<>>, clock)
    /\ UNCHANGED clock

\* a call whose name is no tool's or whose arguments lack a required key
Malformed ==
    \E name \in ToolNames \cup {"rename_note"} :
        /\ name \notin {"list_notes", "list_folders", "get_tags", "get_vault_info"}
        /\ Call(name, NoArguments, <<>>, clock)
        /\ UNCHANGED clock

\* a call whose limit is JSON null
NullLimit ==
    \E name \in {"list_notes", "search_notes", "full_text_search"}, query \in Queries,
       order \in VaultOrders :
        /\ Call(name, Arguments({"query", "limit"}, <<>>, <<>>, query, <<>>, PyNone),
                order, clock)
        /\ UNCHANGED clock

Next ==
    \/ ListNotes
    \/ GetNote
    \/ WriteNote
    \/ SearchNotes
    \/ ListFolders
    \/ GetTags
    \/ DeleteNote
    \/ GetVaultInfo
    \/ Malformed
    \/ NullLimit

Spec == Init /\ [][Next]_vars

-----------------------------------------------------------------------------
(* Properties *)

Vault == get_vault_path(VAULT_PATH)

\* at lies in the directory tree of root
InTree(at, root) == StartsWith(at, root)

HasDotDot(path) == \E i \in 1..Len(ParseParts(path)) : ParseParts(path)[i] = DotDot

HasDotSegment(parts) == \E i \in 1..Len(parts) : StartsWith(parts[i], <<".">>)

WriteTools == {"create_note", "update_note"}

\* the call recorded in l took a path argument
PathCall(l) ==
    /\ l.name \in {"get_note", "delete_note"} \cup WriteTools
    /\ "path" \in l.arguments.has

\* the location the path argument of the call recorded in l resolves to
Target(l) ==
    resolve(JoinPath(Vault, IF l.name \in WriteTools /\ ~EndsWith(l.arguments.path, DotMd)
                            THEN l.arguments.path \o DotMd
                            ELSE l.arguments.path))

\* the files that differ between f and g
Touched(f, g) ==
    {q \in (DOMAIN f.files) \cup (DOMAIN g.files) :
        IF q \in DOMAIN f.files /\ q \in DOMAIN g.files THEN f.files[q] # g.files[q] ELSE TRUE}

\* the limit a list or search call ran with
EffectiveLimit(l) ==
    GetLimit(l.arguments, IF l.name = "list_notes" THEN DefaultListLimit ELSE DefaultSearchLimit)

ScanTools == {"list_notes", "search_notes", "full_text_search"}

\* C1: a call of get_note, create_note, update_note or delete_note whose path has
\* ".." segments and resolves outside the vault returns "Access denied: path
\* outside vault" and changes nothing in the file system, whether or not a file
\* exists at the resolved location.
C1_EscapingPathDenied ==
    [][(PathCall(last') /\ HasDotDot(last'.arguments.path)
            /\ ~InTree(Target(last'), resolve(Vault)))
        => (last'.text.kind = "AccessDenied" /\ fs' = fs)]_vars

\* C2: every file a call creates, overwrites or moves, and every file get_note
\* reads, lies in the directory tree of the vault; a sibling directory whose name
\* begins with the vault's name is never touched.
C2_OnlyVaultTouched ==
    [][/\ \A q \in Touched(fs, fs') : InTree(q, resolve(Vault))
       /\ (last'.name = "get_note" /\ last'.text.kind = "note")
              => InTree(Target(last'), resolve(Vault))]_vars

\* C3: when a write of content c to path p has succeeded, the get_note call that
\* follows it with the same argument p succeeds and returns exactly c.
C3_WriteThenRead ==
    [][(/\ last.name \in WriteTools /\ last.text.kind = "saved"
        /\ last'.name = "get_note" /\ "path" \in last'.arguments.has
        /\ last'.arguments.path = last.arguments.path)
        => (last'.text.kind = "note" /\ last'.text.content = last.arguments.content)]_vars

\* the contents stored under the trash folder
TrashContents(f) ==
    {f.files[q].bytes : q \in {t \in DOMAIN f.files : InTree(t, Append(Vault, DotTrash))}}

\* the file a path argument names in f, as a set of at most one location
NamedFile(f, path) ==
    LET w == Lookup(f, JoinPath(Vault, path))
    IN  IF w.err = "ok" /\ IsFile(f, w.at) THEN {w.at} ELSE {}

\* C4: soft delete never destroys content: when the contents that earlier
\* deletes removed from the vault are all stored under the trash folder, they
\* still are after a further successful delete_note, together with the content
\* that call removed.
C4_DeleteKeepsContent ==
    [][(last'.name = "delete_note" /\ last'.text.kind = "moved"
            /\ trashed \subseteq TrashContents(fs))
        => trashed' \subseteq TrashContents(fs')]_vars

\* C5: after a successful delete_note of an existing note p inside the vault,
\* get_note(p) fails with "File not found", get_note(".trash/" + p) returns the
\* content p had, and every other note in the vault is unchanged.
C5_DeleteMoves ==
    [][(last'.name = "delete_note" /\ last'.text.kind = "moved")
        => \A q \in NamedFile(fs, last'.arguments.path) :
              InTree(q, Vault) =>
                /\ read_note(fs', Vault, last'.arguments.path).value.kind = "NotFound"
                /\ read_note(fs', Vault, DotTrash \o <<"/">> \o last'.arguments.path).value.kind
                      = "note"
                /\ read_note(fs', Vault, DotTrash \o <<"/">> \o last'.arguments.path).value.content
                      = read_note(fs, Vault, last'.arguments.path).value.content
                /\ \A o \in DOMAIN fs.files :
                      (o # q /\ InTree(o, Vault))
                          => (o \in DOMAIN fs'.files /\ fs'.files[o] = fs.files[o])]_vars

\* C6: no note whose vault-relative path has a dot-prefixed segment appears in the
\* result of list_notes, search_notes or full_text_search, contributes to the
\* result of get_tags, or is counted by get_vault_info.
C6_HiddenExcluded ==
    /\ (last.name \in ScanTools /\ last.text.kind = "list")
          => \A i \in 1..Len(last.text.items) :
                 ~HasDotSegment(SplitAt(last.text.items[i].path, 1, <<>>, <<>>))
    /\ last.name \in {"get_tags", "get_vault_info"}
          => \A q \in last.text.counted : ~HasDotSegment(relative_to(q, Vault))
    /\ last.name = "get_tags"
          => \A t \in DOMAIN last.text.tags : \A i \in 1..Len(last.text.tags[t]) :
                 \E q \in last.text.counted : Stem(q) = last.text.tags[t][i]
    /\ last.name = "get_vault_info" => last.text.note_count = Cardinality(last.text.counted)

\* a note lies in the trash folder while list_notes returns the visible notes
C6_Witness ==
    /\ last.name = "list_notes"
    /\ last.text.kind = "list"
    /\ Len(last.text.items) > 0
    /\ \E q \in DOMAIN fs.files :
           InTree(q, Append(Vault, DotTrash)) /\ EndsWith(Name(q), DotMd)

\* the notes a list_notes call over folder can report
Candidates(f, folder) ==
    LET w == Lookup(f, search_path(Vault, folder))
    IN  IF w.err # "ok" THEN {}
        ELSE {q \in DOMAIN f.files :
                 /\ InTree(q, w.at) /\ InTree(q, Vault)
                 /\ EndsWith(Name(q), DotMd) /\ ~is_hidden_or_system(q)}

\* C7: list_notes returns its entries by descending modified time, and when more
\* notes match than the limit allows, exactly the limit most recently modified
\* ones, whatever the order of the scan (stated for limits of 1 and more).
C7_MostRecentListed ==
    (last.name = "list_notes" /\ last.text.kind = "list"
        /\ EffectiveLimit(last).type = "int" /\ EffectiveLimit(last).n >= 1)
    => LET items == last.text.items
           cands == Candidates(fs, GetFolder(last.arguments))
           listed == {items[i].path : i \in 1..Len(items)}
       IN  /\ \A i, j \in 1..Len(items) : i < j => items[i].modified >= items[j].modified
           /\ Cardinality(cands) > EffectiveLimit(last).n
                 => /\ Len(items) = EffectiveLimit(last).n
                    /\ \A i \in 1..Len(items) : \A q \in cands :
                           JoinRel(relative_to(q, Vault)) \notin listed
                               => items[i].modified >= fs.files[q].mtime

\* the arguments the inputSchema of a tool requires
RequiredArguments(name) ==
    CASE name \in {"get_note", "delete_note"} -> {"path"}
      [] name \in WriteTools -> {"path", "content"}
      [] name \in {"search_notes", "full_text_search"} -> {"query"}
      [] OTHER -> {}

\* the results that are error objects
ErrorKinds ==
    {"NotFound", "AccessDenied", "IOFailure", "VaultNotFound", "UnknownTool", "Exception"}

\* C8: call_tool always returns a result and never lets an exception through; an
\* unknown tool name gives an error result naming it, a missing required argument
\* gives an error result, and get_vault_info on a vault that does not exist gives
\* an error result.
C8_ErrorsAreData ==
    /\ ~last.fault
    /\ last.type = "text"
    /\ last.name \notin ToolNames \cup {""}
          => (last.text.kind = "UnknownTool" /\ last.text.tool = last.name)
    /\ (last.name \in ToolNames /\ RequiredArguments(last.name) \ last.arguments.has # {})
          => last.text.kind \in ErrorKinds
    /\ (last.name = "get_vault_info" /\ ~exists(fs, Vault))
          => last.text.kind = "VaultNotFound"

\* an exception raised inside a tool reached call_tool's handler
C8_Witness == last.text.kind = "Exception" /\ last.text.errno \in {"KeyError", "TypeError"}

\* C9: a note none of whose vault-relative segments starts with a dot is never
\* excluded from a scan: list_notes without arguments reports every such note
\* (the notes are fewer than its default limit).
C9_OnlyDotSegmentsHidden ==
    (last.name = "list_notes" /\ last.arguments.has = {} /\ last.text.kind = "list")
    => \A q \in DOMAIN fs.files :
           (InTree(q, Vault) /\ q # Vault /\ EndsWith(Name(q), DotMd)
                /\ ~HasDotSegment(relative_to(q, Vault)))
               => \E i \in 1..Len(last.text.items) :
                      last.text.items[i].path = JoinRel(relative_to(q, Vault))

\* C10: for every limit >= 0, list_notes, search_notes and full_text_search return
\* at most limit entries, and every entry a search returns is a visible note whose
\* display name (search_notes) or content (full_text_search) contains the query
\* case-insensitively.
C10_LimitIsMaximum ==
    (last.name \in ScanTools /\ last.text.kind = "list"
        /\ EffectiveLimit(last).type = "int" /\ EffectiveLimit(last).n >= 0)
    => /\ Len(last.text.items) <= EffectiveLimit(last).n
       /\ last.name = "search_notes"
             => \A i \in 1..Len(last.text.items) :
                    /\ ~is_hidden_or_system(JoinPath(Vault, last.text.items[i].path))
                    /\ Contains(Lower(last.text.items[i].name), Lower(last.arguments.query))
       /\ last.name = "full_text_search"
             => \A i \in 1..Len(last.text.items) :
                    /\ ~is_hidden_or_system(JoinPath(Vault, last.text.items[i].path))
                    /\ Contains(Lower(read_text(fs, JoinPath(Vault, last.text.items[i].path)).text),
                                Lower(last.arguments.query))

====
